---------------------------- MODULE Spec2Model ----------------------------
(***************************************************************************)
(* Model of the flow controller of smarterplaylists-rs                     *)
(* (src/src/controller.rs): UserDefinedFlow::build_schedule, the level     *)
(* based topological sort, and UserDefinedFlow::execute / execute_batch,   *)
(* the scoped-thread executor that runs the schedule batch by batch.       *)
(*                                                                         *)
(* Node ids (Uuid) are the integers 1..NumIds.  A flow is a node map       *)
(* (id -> component) and an edge list; nothing in the source checks that   *)
(* an edge endpoint is a key of the node map, so the inputs include edges  *)
(* with endpoints outside the map.                                         *)
(***************************************************************************)
EXTENDS Integers, Sequences, FiniteSets, TLC

(***************************************************************************)
(* Bounds of the model.                                                    *)
(***************************************************************************)
NumIds == 3            \* size of the universe of node ids
MaxEdges == 3          \* longest edge list given to build_schedule alone
MaxRunEdges == 2       \* longest edge list of a flow that is executed
MaxTracks == 3         \* longest TrackList handed to a component
MaxLimit == 4          \* largest `limit` of a Take (above MaxTracks)
NumCallers == 2        \* concurrent calls of get_or_create on one key
MaxFairEdges == 1      \* longest edge list of a flow run under the fair scheduler
MaxLoopEdges == 2      \* longest edge list of build_schedule run to its end

Ids == 1..NumIds

VARIABLES
    nodes,             \* UserDefinedFlow.nodes : HashMap<Uuid, NonExhaustive<Component>>
    edges,             \* UserDefinedFlow.edges : Vec<Edge>
    pc,                \* position of the calling thread
    adj_list,          \* build_schedule: adjacency list
    in_degree,         \* build_schedule: in-degree map
    schedule,          \* build_schedule: the schedule built so far / returned
    processed_nodes,   \* build_schedule: the batch processed by the level loop
    underflow,         \* build_schedule: a usize in-degree was decremented at 0
    loop_passes,       \* build_schedule: iterations of the level loop so far
    build_result,      \* "none" | "Ok" | "Err": what build_schedule returned
    batch_no,          \* execute: index (1-based) of the batch being run
    handles,           \* execute_batch: ids of the threads spawned so far
    joined,            \* execute_batch: number of handles joined so far
    task,              \* per id: state of the thread spawned for that node
    started_in,        \* per id: batch_no in which its thread was spawned (0: never)
    writers,           \* ids of the threads holding the cache write lock
    cache,             \* contents of the Cache (HashMap<Uuid, TrackList>)
    cache_alive,       \* the Cache exists (created by execute, not yet dropped)
    unwinding,         \* a panic is propagating out of the scope closure
    result,            \* "none" | "Ok" | "Err" | "panic": how execute ended
    previous,          \* what an earlier call of build_schedule on the flow returned
    call_self,         \* Component::execute: the component (self)
    call_prev,         \* Component::execute: prev, the predecessor outputs
    call_output,       \* Component::execute: what the call returned
    offset,            \* UserLikedTracks::execute: offset of the next page
    liked_tracks,      \* UserLikedTracks::execute: `tracks`, gathered so far
    fetched,           \* the items of the pages the provider has answered with
    redis,             \* Redis: the string stored under the key (Option)
    calls              \* get_or_create: per call, its arguments, locals and position

vars == <<nodes, edges, pc, adj_list, in_degree, schedule, processed_nodes,
          underflow, loop_passes, build_result, batch_no, handles, joined, task, started_in,
          writers, cache, cache_alive, unwinding, result,
          previous, call_self, call_prev, call_output,
          offset, liked_tracks, fetched, redis, calls>>

\* The variables of the calls that are made apart from a run of execute.
auxVars == <<previous, call_self, call_prev, call_output,
            offset, liked_tracks, fetched, redis, calls>>

\* Redis and the calls of get_or_create.
cacheVars == <<redis, calls>>

\* The locals of UserLikedTracks::execute and the record of the provider.
pageVars == <<offset, liked_tracks, fetched>>

buildVars == <<adj_list, in_degree, schedule, processed_nodes, underflow,
              loop_passes, build_result>>
runVars == <<batch_no, handles, joined, task, started_in, writers, cache,
             cache_alive, unwinding, result>>

(***************************************************************************)
(* Generic helpers on sequences and finite maps.                           *)
(***************************************************************************)
Range(s) == {s[i] : i \in DOMAIN s}

EmptyMap == [x \in {} |-> 0]

\* All the orders in which a HashMap can iterate over the key set S.
Orderings(S) ==
    {s \in [1..Cardinality(S) -> S] : \A i, j \in DOMAIN s : i # j => s[i] # s[j]}

RECURSIVE Flatten(_)
Flatten(ss) == IF ss = <<>> THEN <<>> ELSE Head(ss) \o Flatten(Tail(ss))

\* Sequences over S of length at most n.
SeqsUpTo(S, n) == UNION {[1..k -> S] : k \in 0..n}

(***************************************************************************)
(* build_schedule (controller.rs 71-175).                                  *)
(***************************************************************************)

\* A variant of AdjListOf that files every edge under its target
\* (`entry(edge.dst_node)...push(edge.src_node)`).
AdjListOf_Reversed(ns, es) ==
    LET keys == DOMAIN ns \cup {es[i][2] : i \in DOMAIN es}
        Sources(k) ==
            LET Pick(e) == e[2] = k
                mine == SelectSeq(es, Pick)
            IN  [i \in DOMAIN mine |-> mine[i][1]]
    IN  [k \in keys |-> Sources(k)]

\* Lines 78-97: adj_list has a key for every node and every edge source; the
\* value lists the targets of the key's edges in edge order.
AdjListOf(ns, es) ==
    LET keys == DOMAIN ns \cup {es[i][1] : i \in DOMAIN es}
        Targets(k) ==
            LET Pick(e) == e[1] = k
                mine == SelectSeq(es, Pick)
            IN  [i \in DOMAIN mine |-> mine[i][2]]
    IN  [k \in keys |-> Targets(k)]

\* A variant of InDegreeOf that records whether a key has an incoming edge
\* (`insert(dst, 1)` in place of `+= 1`).
InDegreeOf_Flag(ns, es) ==
    LET keys == DOMAIN ns \cup {es[i][2] : i \in DOMAIN es}
    IN  [k \in keys |-> IF \E i \in DOMAIN es : es[i][2] = k THEN 1 ELSE 0]

\* A variant of InDegreeOf that does not count an edge from a key to itself.
InDegreeOf_NoSelfLoops(ns, es) ==
    LET keys == DOMAIN ns \cup {es[i][2] : i \in DOMAIN es}
    IN  [k \in keys |->
            Cardinality({i \in DOMAIN es : es[i][2] = k /\ es[i][1] # k})]

\* Lines 83-97: in_degree has a key for every node and every edge target; the
\* value counts the edges into the key.
InDegreeOf(ns, es) ==
    LET keys == DOMAIN ns \cup {es[i][2] : i \in DOMAIN es}
    IN  [k \in keys |-> Cardinality({i \in DOMAIN es : es[i][2] = k})]

\* Line 135: adj_list.get(&node_id), None read as no neighbour.
NeighborsOf(adj, n) == IF n \in DOMAIN adj THEN adj[n] ELSE <<>>

\* A variant of DecrementDegree that leaves the entry as it is.
DecrementDegree_None(d) == d

\* Line 139, `*degree -= 1` on a usize.  At 0 the subtraction overflows: a
\* debug build panics and a release build wraps to usize::MAX, written -1
\* here; either way the entry is not 0 afterwards.
DecrementDegree(d) == IF d = 0 THEN -1 ELSE d - 1

\* A variant of BecomesReady that takes the neighbour at every decrement.
BecomesReady_Always(d) == d >= 0

\* A variant of BecomesReady that takes the neighbour one decrement early
\* as well.
BecomesReady_Early(d) == d = 0 \/ d = 1

\* Line 142: the neighbour joins next_batch when its in-degree becomes 0.
BecomesReady(d) == d = 0

\* Lines 136-146, for one neighbour after the other: st is the pair of
\* updated_in_degree and next_batch, with the underflow flag.
RECURSIVE VisitNeighbors(_, _)
VisitNeighbors(ts, st) ==
    IF ts = <<>> THEN st
    ELSE LET t == Head(ts)
         IN  IF t \in DOMAIN st.deg
             THEN LET d == DecrementDegree(st.deg[t])
                  IN  VisitNeighbors(Tail(ts),
                        [deg  |-> [st.deg EXCEPT ![t] = d],
                         next |-> IF BecomesReady(d) THEN Append(st.next, t) ELSE st.next,
                         under |-> st.under \/ st.deg[t] = 0])
             ELSE VisitNeighbors(Tail(ts), st)

\* A variant of ProcessLevel that visits the neighbours of the first
\* processed node only.
ProcessLevel_HeadOnly(adj, deg, processed) ==
    VisitNeighbors(IF processed = <<>> THEN <<>> ELSE NeighborsOf(adj, Head(processed)),
                   [deg |-> deg, next |-> <<>>, under |-> FALSE])

\* A variant of ProcessLevel whose next batch starts as the batch just
\* processed.
ProcessLevel_KeepsBatch(adj, deg, processed) ==
    VisitNeighbors(Flatten([i \in DOMAIN processed |-> NeighborsOf(adj, processed[i])]),
                   [deg |-> deg, next |-> processed, under |-> FALSE])

\* Lines 129-148: one pass of the level loop over processed_nodes.
ProcessLevel(adj, deg, processed) ==
    VisitNeighbors(Flatten([i \in DOMAIN processed |-> NeighborsOf(adj, processed[i])]),
                   [deg |-> deg, next |-> <<>>, under |-> FALSE])

\* Lines 164-168: the set of ids in the schedule.
ScheduledNodes(sch) == UNION {Range(sch[i]) : i \in DOMAIN sch}

\* Line 170: the final check compares two counts.
AllScheduled(sch, ns) == Cardinality(ScheduledNodes(sch)) = Cardinality(DOMAIN ns)

\* A variant of EarlyCycle without the test of the node map.
EarlyCycle_NoNodeTest(current_batch, ns) == current_batch = <<>>

\* Line 113: no node has in-degree 0 although there are nodes.
EarlyCycle(current_batch, ns) == current_batch = <<>> /\ DOMAIN ns # {}

\* A variant of InitialSchedule that leaves the first batch out.
InitialSchedule_Empty(current_batch) == <<>>

\* Lines 101 and 119-121: the schedule starts with the first batch, unless
\* that batch is empty.
InitialSchedule(current_batch) ==
    IF current_batch # <<>> THEN <<current_batch>> ELSE <<>>

\* Lines 78-125: the maps, the first batch (in the iteration order of the
\* in_degree HashMap, which is arbitrary) and the early cycle error.
BuildStart ==
    /\ pc = "build_start"
    /\ adj_list' = AdjListOf(nodes, edges)
    /\ in_degree' = InDegreeOf(nodes, edges)
    /\ \E current_batch \in Orderings({k \in DOMAIN in_degree' : in_degree'[k] = 0}) :
          IF EarlyCycle(current_batch, nodes)
          THEN /\ build_result' = "Err"
               /\ pc' = "built"
               /\ UNCHANGED <<schedule, processed_nodes>>
          ELSE /\ schedule' = InitialSchedule(current_batch)
               /\ processed_nodes' = current_batch
               /\ pc' = "build_loop"
               /\ UNCHANGED build_result
    /\ UNCHANGED <<nodes, edges, underflow, loop_passes>>
    /\ UNCHANGED runVars
    /\ UNCHANGED auxVars

\* Lines 127-160: one iteration of `while !processed_nodes.is_empty()`.
LevelStep ==
    /\ pc = "build_loop"
    /\ processed_nodes # <<>>
    /\ LET st == ProcessLevel(adj_list, in_degree, processed_nodes)
       IN  /\ in_degree' = st.deg
           /\ schedule' = IF st.next # <<>> THEN Append(schedule, st.next) ELSE schedule
           /\ processed_nodes' = st.next
           /\ underflow' = (underflow \/ st.under)
           /\ loop_passes' = loop_passes + 1
    /\ UNCHANGED <<nodes, edges, pc, adj_list, build_result>>
    /\ UNCHANGED runVars
    /\ UNCHANGED auxVars

\* Lines 162-174: the loop has ended; the count check and the return.
BuildFinish ==
    /\ pc = "build_loop"
    /\ processed_nodes = <<>>
    /\ IF AllScheduled(schedule, nodes)
       THEN /\ build_result' = "Ok"
            /\ UNCHANGED schedule
       ELSE /\ build_result' = "Err"
            /\ schedule' = <<>>
    /\ pc' = "built"
    /\ UNCHANGED <<nodes, edges, adj_list, in_degree, processed_nodes, underflow,
                   loop_passes>>
    /\ UNCHANGED runVars
    /\ UNCHANGED auxVars

\* Line 71, `pub fn build_schedule(&self)`: the flow is borrowed unchanged,
\* so the caller can compile it again; the second call starts from fresh
\* locals and fresh maps.  The outcome of the first call is kept in
\* `previous`.
BuildAgain ==
    /\ pc = "built"
    /\ ~previous.ran
    /\ ~cache_alive
    /\ previous' = [ran |-> TRUE, result |-> build_result, schedule |-> schedule]
    /\ pc' = "build_start"
    /\ adj_list' = EmptyMap
    /\ in_degree' = EmptyMap
    /\ schedule' = <<>>
    /\ processed_nodes' = <<>>
    /\ build_result' = "none"
    /\ loop_passes' = 0
    /\ UNCHANGED <<nodes, edges, underflow>>
    /\ UNCHANGED runVars
    /\ UNCHANGED <<call_self, call_prev, call_output>>
    /\ UNCHANGED pageVars
    /\ UNCHANGED cacheVars

(***************************************************************************)
(* Components (components/mod.rs).  A node of the map is                   *)
(* NonExhaustive::Known(component) or NonExhaustive::Unknown(json): the    *)
(* untagged enum accepts any value that is no known component.             *)
(***************************************************************************)
UnknownComponent == [component |-> "unknown"]
AlbumComponent == [component |-> "source:album"]

\* The tags of the components! macro (mod.rs 112-122).
RegisteredTags ==
    {"source:artist_top_tracks", "source:album", "source:user_liked_tracks",
     "filter:take", "filter:dedup_artist", "filter:dedup_track"}

\* Node descriptions of a flow definition: the `component` tag, and whether
\* the `parameters` fit the Args of that tag.
RawNodes ==
    {[component |-> "source:album", valid |-> TRUE],
     [component |-> "source:album", valid |-> FALSE],
     [component |-> "combiner:zip", valid |-> TRUE]}

\* Deserialize for the untagged NonExhaustive<Component> (mod.rs 19-24): the
\* Known variant is tried first; whatever it refuses (an unregistered tag,
\* parameters that do not fit) is taken by Unknown(serde_json::Value), which
\* accepts every value, so no node description is a parse error.
DeserializeNode(raw) ==
    IF raw.component \in RegisteredTags /\ raw.valid
    THEN [component |-> raw.component]
    ELSE UnknownComponent

\* The node values a flow is drawn from.
Components == {DeserializeNode(raw) : raw \in RawNodes}

\* The tracks the catalog client answers an album request with (tracks are
\* opaque to the controller).
AlbumTracks == <<"t1", "t2">>

\* The tracks of the lists handed to a component; a filter clones them and
\* does not look into them.
Tracks == {"t1", "t2", "t3"}

TrackLists == SeqsUpTo(Tracks, MaxTracks)

\* Component::Take(TakeArgs { limit, from }) (filter_take.rs 8-11).
TakeComponents ==
    {[component |-> "filter:take", limit |-> l, from |-> f] :
        l \in 0..MaxLimit, f \in {"start", "end", "End", ""}}

\* A variant of IterTake that yields one element more.
IterTake_OneMore(s, n) ==
    IF n + 1 <= Len(s) THEN SubSeq(s, 1, n + 1) ELSE s

\* A variant of IterTake that yields nothing when fewer than n elements are
\* there (a slice `[..n]` in place of take(n)).
IterTake_Exact(s, n) ==
    IF n <= Len(s) THEN SubSeq(s, 1, n) ELSE <<>>

\* Iterator::take(n): yields elements until n of them were yielded or the
\* iterator is exhausted.
RECURSIVE IterTake(_, _)
IterTake(s, n) ==
    IF n = 0 \/ s = <<>> THEN <<>>
    ELSE <<Head(s)>> \o IterTake(Tail(s), n - 1)

\* A variant of IterRev that yields the elements from the front.
IterRev_Forward(s) == s

\* Iterator::rev() on a slice iterator: yields the elements from the back.
RECURSIVE IterRev(_)
IterRev(s) ==
    IF s = <<>> THEN <<>>
    ELSE Append(IterRev(Tail(s)), Head(s))

\* filter_take.rs 21, `args.from.eq("end")`: equality of strings.
FromEnd(from) == from = "end"

\* Take::execute (filter_take.rs 19-28).  `prev.first().unwrap()` panics when
\* prev is empty; otherwise the first list is iterated, from the back when
\* from is "end", and `limit` items are taken and cloned.
TakeExecute(args, prev) ==
    IF prev = <<>>
    THEN [tag |-> "panic", tracks |-> <<>>]
    ELSE LET tracks == Head(prev)
         IN  IF FromEnd(args.from)
             THEN [tag |-> "Ok", tracks |-> IterTake(IterRev(tracks), args.limit)]
             ELSE [tag |-> "Ok", tracks |-> IterTake(tracks, args.limit)]

(***************************************************************************)
(* The deduplicating filters look into the tracks: FullTrack.id is an      *)
(* Option<TrackId>, FullTrack.name a String, FullTrack.artists a Vec of    *)
(* SimplifiedArtist with an Option<ArtistId> and a name.  An Option is     *)
(* written as a sequence of length 0 (None) or 1 (Some).                   *)
(***************************************************************************)
ArtistA == [id |-> <<"a">>, name |-> "A"]
ArtistB == [id |-> <<"b">>, name |-> "B"]
\* Artists without an id (local files).
LocalA == [id |-> <<>>, name |-> "A"]
LocalAB == [id |-> <<>>, name |-> "A:B"]

\* The tracks the filters are tried on: with and without id, two names, no
\* artist, one artist or several.
FullTracks ==
    {[id |-> i, name |-> n, artists |-> as] :
        i \in {<<>>, <<"x">>},
        n \in {"n", "n:A"},
        as \in {<<>>, <<ArtistB>>, <<LocalAB>>}}
    \cup
    {[id |-> <<"x">>, name |-> "n", artists |-> as] :
        as \in {<<ArtistA>>, <<LocalA>>, <<ArtistA, ArtistB>>,
                <<ArtistB, ArtistA>>, <<LocalA, ArtistA>>}}
    \cup
    {[id |-> <<"y">>, name |-> "n", artists |-> <<ArtistB>>]}

FullTrackLists == SeqsUpTo(FullTracks, MaxTracks)

DedupTrackComponent == [component |-> "filter:dedup_track"]
DedupArtistComponent == [component |-> "filter:dedup_artist"]

\* A variant of HashSetInsert that remembers the last value only.
HashSetInsert_Forgets(set, value) ==
    [fresh |-> value \notin set, set |-> {value}]

\* A variant of HashSetInsert that reports a value as new when it was there.
HashSetInsert_Negated(set, value) ==
    [fresh |-> value \in set, set |-> set \cup {value}]

\* HashSet::insert: whether the value is newly inserted, and the set after.
HashSetInsert(set, value) ==
    [fresh |-> value \notin set, set |-> set \cup {value}]

\* filter_dedup_track.rs 29-37: the id of the track, or for a track without
\* id `format!("{}:{}", track.name, artist_name)` with the name of the first
\* artist, "" when there is none.
TrackKey(track) ==
    IF track.id # <<>> THEN track.id[1]
    ELSE LET artist_name ==
                 IF track.artists # <<>> THEN track.artists[1].name ELSE ""
         IN  track.name \o ":" \o artist_name

\* filter_dedup_track.rs 27-43, the loop over the tracks: st holds
\* seen_track_ids and result.
RECURSIVE DedupTrackLoop(_, _)
DedupTrackLoop(tracks, st) ==
    IF tracks = <<>> THEN st.result
    ELSE LET track == Head(tracks)
             ins == HashSetInsert(st.seen, TrackKey(track))
         IN  DedupTrackLoop(Tail(tracks),
                [seen |-> ins.set,
                 result |-> IF ins.fresh THEN Append(st.result, track)
                            ELSE st.result])

\* A variant of DeduplicateTrackExecute that reads the last predecessor list.
DeduplicateTrackExecute_Last(prev) ==
    IF prev = <<>>
    THEN [tag |-> "Ok", tracks |-> <<>>]
    ELSE [tag |-> "Ok",
          tracks |-> DedupTrackLoop(prev[Len(prev)], [seen |-> {}, result |-> <<>>])]

\* DeduplicateTrack::execute (filter_dedup_track.rs 18-46).
DeduplicateTrackExecute(prev) ==
    IF prev = <<>>
    THEN [tag |-> "Ok", tracks |-> <<>>]
    ELSE [tag |-> "Ok",
          tracks |-> DedupTrackLoop(Head(prev), [seen |-> {}, result |-> <<>>])]

\* filter_dedup_artist.rs 30-34: the id of the artist, or the name of an
\* artist without id.
ArtistKey(artist) ==
    IF artist.id # <<>> THEN artist.id[1] ELSE artist.name

\* A variant of ArtistsLookedAt that looks at every artist of the track.
ArtistsLookedAt_All(track) == track.artists

\* filter_dedup_artist.rs 29, `track.artists.first()`: the artists of the
\* track the filter looks at, none or the first one.
ArtistsLookedAt(track) ==
    IF track.artists = <<>> THEN <<>> ELSE <<Head(track.artists)>>

\* A variant of NoArtistStep that treats the missing artist as one more
\* artist key.
NoArtistStep_Keyed(st, track) ==
    [seen |-> st.seen \cup {""},
     result |-> IF "" \in st.seen THEN st.result ELSE Append(st.result, track)]

\* filter_dedup_artist.rs 40-43: a track without artists is pushed, and
\* seen_artists is left as it is.
NoArtistStep(st, track) ==
    [seen |-> st.seen, result |-> Append(st.result, track)]

\* filter_dedup_artist.rs 29-39, for the artists looked at (one in the
\* code): the key is inserted, and the track is pushed when every inserted
\* key was new.
RECURSIVE InsertArtists(_, _, _)
InsertArtists(artists, seen, fresh) ==
    IF artists = <<>> THEN [set |-> seen, fresh |-> fresh]
    ELSE LET ins == HashSetInsert(seen, ArtistKey(Head(artists)))
         IN  InsertArtists(Tail(artists), ins.set, fresh /\ ins.fresh)

\* filter_dedup_artist.rs 27-44, the loop over the tracks: st holds
\* seen_artists and result.
RECURSIVE DedupArtistLoop(_, _)
DedupArtistLoop(tracks, st) ==
    IF tracks = <<>> THEN st.result
    ELSE LET track == Head(tracks)
             looked == ArtistsLookedAt(track)
         IN  IF looked # <<>>
             THEN LET ins == InsertArtists(looked, st.seen, TRUE)
                  IN  DedupArtistLoop(Tail(tracks),
                         [seen |-> ins.set,
                          result |-> IF ins.fresh THEN Append(st.result, track)
                                     ELSE st.result])
             ELSE DedupArtistLoop(Tail(tracks), NoArtistStep(st, track))

\* DeduplicateArtist::execute (filter_dedup_artist.rs 18-47).
DeduplicateArtistExecute(prev) ==
    IF prev = <<>>
    THEN [tag |-> "Ok", tracks |-> <<>>]
    ELSE [tag |-> "Ok",
          tracks |-> DedupArtistLoop(Head(prev), [seen |-> {}, result |-> <<>>])]

\* Component::execute (mod.rs 94-98) dispatches on the variant; Album::execute
\* (source_album.rs 21-31) ignores prev and returns the client's tracks.
ComponentExecute(c, prev) ==
    CASE c.component = "source:album" -> [tag |-> "Ok", tracks |-> AlbumTracks]
      [] c.component = "filter:take" -> TakeExecute(c, prev)
      [] c.component = "filter:dedup_track" -> DeduplicateTrackExecute(prev)
      [] c.component = "filter:dedup_artist" -> DeduplicateArtistExecute(prev)

\* NonExhaustive::unwrap (mod.rs 27-32) panics on Unknown.
UnwrapPanics(c) == c.component = "unknown"

(***************************************************************************)
(* execute and execute_batch (controller.rs 179-215).                      *)
(***************************************************************************)

\* Line 202: the value the thread of a node inserts under the node's id.
InsertedValue(id) == <<>>

\* A variant of CacheInsert that replaces the map by the one new entry.
CacheInsert_Replace(c, k, v) == [x \in {k} |-> v]

\* HashMap::insert.
CacheInsert(c, k, v) == [x \in DOMAIN c \cup {k} |-> IF x = k THEN v ELSE c[x]]

Finished(id) == task[id] \in {"done", "panicked"}

CurrentBatch == schedule[batch_no]

\* Line 180: execute creates the cache, then calls build_schedule (line 181).
ExecuteStart ==
    /\ pc = "execute"
    /\ cache' = EmptyMap
    /\ cache_alive' = TRUE
    /\ pc' = "build_start"
    /\ UNCHANGED <<nodes, edges>>
    /\ UNCHANGED buildVars
    /\ UNCHANGED <<batch_no, handles, joined, task, started_in, writers, unwinding, result>>
    /\ UNCHANGED auxVars

\* Line 181, `self.build_schedule()?`: the error is returned to the caller;
\* the cache, a local of execute, is dropped.
ExecuteReturnErr ==
    /\ pc = "built"
    /\ cache_alive
    /\ build_result = "Err"
    /\ result' = "Err"
    /\ cache' = EmptyMap
    /\ cache_alive' = FALSE
    /\ pc' = "done"
    /\ UNCHANGED <<nodes, edges>>
    /\ UNCHANGED buildVars
    /\ UNCHANGED <<batch_no, handles, joined, task, started_in, writers, unwinding>>
    /\ UNCHANGED auxVars

\* Lines 181-182: the next batch of the schedule is handed to execute_batch,
\* which opens the thread scope with no handle yet (188-189).
BatchStart ==
    /\ pc \in {"built", "for_batch"}
    /\ cache_alive
    /\ build_result = "Ok"
    /\ batch_no < Len(schedule)
    /\ batch_no' = batch_no + 1
    /\ handles' = <<>>
    /\ joined' = 0
    /\ pc' = "batch"
    /\ UNCHANGED <<nodes, edges>>
    /\ UNCHANGED buildVars
    /\ UNCHANGED <<task, started_in, writers, cache, cache_alive, unwinding, result>>
    /\ UNCHANGED auxVars

\* Line 184: every batch has run; execute returns Ok(()) and drops the cache.
ExecuteReturnOk ==
    /\ pc \in {"built", "for_batch"}
    /\ cache_alive
    /\ build_result = "Ok"
    /\ batch_no = Len(schedule)
    /\ result' = "Ok"
    /\ cache' = EmptyMap
    /\ cache_alive' = FALSE
    /\ pc' = "done"
    /\ UNCHANGED <<nodes, edges>>
    /\ UNCHANGED buildVars
    /\ UNCHANGED <<batch_no, handles, joined, task, started_in, writers, unwinding>>
    /\ UNCHANGED auxVars

\* Lines 192-206: one iteration of the spawn loop.  `self.nodes.get(node_id)
\* .unwrap()` panics in the calling thread when the id is no key of the map.
SpawnNode ==
    /\ pc = "batch"
    /\ Len(handles) < Len(CurrentBatch)
    /\ LET node_id == CurrentBatch[Len(handles) + 1]
       IN  IF node_id \in DOMAIN nodes
           THEN /\ handles' = Append(handles, node_id)
                /\ task' = [task EXCEPT ![node_id] = "running"]
                /\ started_in' = [started_in EXCEPT ![node_id] = batch_no]
                /\ UNCHANGED <<pc, unwinding>>
           ELSE /\ unwinding' = TRUE
                /\ pc' = "scope_exit"
                /\ UNCHANGED <<handles, task, started_in>>
    /\ UNCHANGED <<nodes, edges>>
    /\ UNCHANGED buildVars
    /\ UNCHANGED <<batch_no, joined, writers, cache, cache_alive, result>>
    /\ UNCHANGED auxVars

\* Lines 197-199 in the spawned thread: sleep, then print the component's
\* name; `node.clone().unwrap()` panics for an unknown component.
TaskRun(id) ==
    /\ task[id] = "running"
    /\ task' = [task EXCEPT ![id] = IF UnwrapPanics(nodes[id]) THEN "panicked" ELSE "want_write"]
    /\ UNCHANGED <<nodes, edges, pc>>
    /\ UNCHANGED buildVars
    /\ UNCHANGED <<batch_no, handles, joined, started_in, writers, cache, cache_alive,
                   unwinding, result>>
    /\ UNCHANGED auxVars

\* Line 202, `result_cache.write()`: the thread gets the write lock when no
\* other thread holds it.
TaskLock(id) ==
    /\ task[id] = "want_write"
    /\ writers = {}
    /\ writers' = {id}
    /\ task' = [task EXCEPT ![id] = "writing"]
    /\ UNCHANGED <<nodes, edges, pc>>
    /\ UNCHANGED buildVars
    /\ UNCHANGED <<batch_no, handles, joined, started_in, cache, cache_alive,
                   unwinding, result>>
    /\ UNCHANGED auxVars

\* A variant of TaskInsert in which the write guard is never dropped.
TaskInsert_KeepsLock(id) ==
    /\ task[id] = "writing"
    /\ cache' = CacheInsert(cache, id, InsertedValue(id))
    /\ task' = [task EXCEPT ![id] = "done"]
    /\ UNCHANGED <<nodes, edges, pc>>
    /\ UNCHANGED buildVars
    /\ UNCHANGED <<batch_no, handles, joined, started_in, writers, cache_alive,
                   unwinding, result>>
    /\ UNCHANGED auxVars

\* A variant of TaskInsert in which the thread ends without an insert.
TaskInsert_NoWrite(id) ==
    /\ task[id] = "writing"
    /\ writers' = writers \ {id}
    /\ task' = [task EXCEPT ![id] = "done"]
    /\ UNCHANGED <<nodes, edges, pc>>
    /\ UNCHANGED buildVars
    /\ UNCHANGED <<batch_no, handles, joined, started_in, cache, cache_alive,
                   unwinding, result>>
    /\ UNCHANGED auxVars

\* Line 202, `.insert(*node_id, Vec::new())`, and the release of the lock at
\* the end of the statement; the thread ends.
TaskInsert(id) ==
    /\ task[id] = "writing"
    /\ cache' = CacheInsert(cache, id, InsertedValue(id))
    /\ writers' = writers \ {id}
    /\ task' = [task EXCEPT ![id] = "done"]
    /\ UNCHANGED <<nodes, edges, pc>>
    /\ UNCHANGED buildVars
    /\ UNCHANGED <<batch_no, handles, joined, started_in, cache_alive, unwinding, result>>
    /\ UNCHANGED auxVars

\* A variant of JoinReady that does not wait for the thread.
JoinReady_NoWait(id) == TRUE

\* Line 210, `h.join()`: blocks until the thread of the handle has ended.
JoinReady(id) == Finished(id)

\* A variant of JoinPanics that drops what join() returned.
JoinPanics_Ignored(id) == FALSE

\* Line 210, `.unwrap()` on what join() returned: join() returns Err for a
\* thread that panicked, and the unwrap() then panics in the calling thread.
JoinPanics(id) == task[id] = "panicked"

\* Lines 209-211: one iteration of the join loop, entered once the spawn
\* loop has ended.
JoinHandle ==
    /\ pc = "batch"
    /\ Len(handles) = Len(CurrentBatch)
    /\ joined < Len(handles)
    /\ LET h == handles[joined + 1]
       IN  /\ JoinReady(h)
           /\ IF JoinPanics(h)
              THEN /\ unwinding' = TRUE
                   /\ pc' = "scope_exit"
                   /\ UNCHANGED joined
              ELSE /\ joined' = joined + 1
                   /\ UNCHANGED <<pc, unwinding>>
    /\ UNCHANGED <<nodes, edges>>
    /\ UNCHANGED buildVars
    /\ UNCHANGED <<batch_no, handles, task, started_in, writers, cache, cache_alive, result>>
    /\ UNCHANGED auxVars

\* Lines 212-214: the closure returns, the scope ends and execute_batch
\* returns Ok(()).
BatchEnd ==
    /\ pc = "batch"
    /\ Len(handles) = Len(CurrentBatch)
    /\ joined = Len(handles)
    /\ pc' = "for_batch"
    /\ UNCHANGED <<nodes, edges>>
    /\ UNCHANGED buildVars
    /\ UNCHANGED runVars
    /\ UNCHANGED auxVars

\* A variant of ScopeReady for threads that are not scoped.
ScopeReady_NoWait == TRUE

\* thread::scope, when its closure panics: the scope still waits for every
\* thread spawned in it.
ScopeReady == \A i \in DOMAIN handles : Finished(handles[i])

\* The panic then leaves execute_batch and execute (no catch_unwind on the
\* way); the cache is dropped by the unwinding.
ScopeUnwind ==
    /\ pc = "scope_exit"
    /\ unwinding
    /\ ScopeReady
    /\ result' = "panic"
    /\ cache' = EmptyMap
    /\ cache_alive' = FALSE
    /\ pc' = "done"
    /\ UNCHANGED <<nodes, edges>>
    /\ UNCHANGED buildVars
    /\ UNCHANGED <<batch_no, handles, joined, task, started_in, writers, unwinding>>
    /\ UNCHANGED auxVars

(***************************************************************************)
(* Specifications.                                                         *)
(***************************************************************************)

\* The state of the locals before a call.
InitLocals ==
    /\ adj_list = EmptyMap
    /\ in_degree = EmptyMap
    /\ schedule = <<>>
    /\ processed_nodes = <<>>
    /\ underflow = FALSE
    /\ loop_passes = 0
    /\ build_result = "none"
    /\ batch_no = 0
    /\ handles = <<>>
    /\ joined = 0
    /\ task = [id \in Ids |-> "idle"]
    /\ started_in = [id \in Ids |-> 0]
    /\ writers = {}
    /\ cache = EmptyMap
    /\ cache_alive = FALSE
    /\ unwinding = FALSE
    /\ result = "none"
    /\ previous = [ran |-> FALSE, result |-> "none", schedule |-> <<>>]
    /\ offset = 0
    /\ liked_tracks = <<>>
    /\ fetched = <<>>

\* The calls of get_or_create; none is under way.
Callers == 1..NumCallers

IdleCall ==
    [pc |-> "idle", reset |-> FALSE, exists |-> FALSE, data |-> <<>>,
     callback_ran |-> FALSE, wrote |-> FALSE, ret |-> [tag |-> "none"]]

NoCacheCall ==
    /\ redis = <<>>
    /\ calls = [c \in Callers |-> IdleCall]

\* No component is being executed on its own.
NoComponentCall ==
    /\ call_self = UnknownComponent
    /\ call_prev = <<>>
    /\ call_output = [tag |-> "none", tracks |-> <<>>]

\* The flows execute is called on.
Init ==
    /\ \E S \in SUBSET Ids : nodes \in [S -> Components]
    /\ edges \in SeqsUpTo(Ids \X Ids, MaxRunEdges)
    /\ pc = "execute"
    /\ InitLocals
    /\ NoComponentCall
    /\ NoCacheCall

Next ==
    \/ ExecuteStart
    \/ BuildStart
    \/ LevelStep
    \/ BuildFinish
    \/ ExecuteReturnErr
    \/ BatchStart
    \/ ExecuteReturnOk
    \/ SpawnNode
    \/ \E id \in Ids : TaskRun(id)
    \/ \E id \in Ids : TaskLock(id)
    \/ \E id \in Ids : TaskInsert(id)
    \/ JoinHandle
    \/ BatchEnd
    \/ ScopeUnwind

Spec == Init /\ [][Next]_vars

\* The steps of the thread that calls execute.
CallerNext ==
    \/ ExecuteStart
    \/ BuildStart
    \/ LevelStep
    \/ BuildFinish
    \/ ExecuteReturnErr
    \/ BatchStart
    \/ ExecuteReturnOk
    \/ SpawnNode
    \/ JoinHandle
    \/ BatchEnd
    \/ ScopeUnwind

\* The steps of the thread spawned for node id.
ThreadNext(id) == TaskRun(id) \/ TaskLock(id) \/ TaskInsert(id)

\* A run of execute under a fair scheduler: a thread that can take a step
\* and stays able to take it does take it; the sleep of line 198 ends.
InitFair ==
    /\ \E S \in SUBSET Ids : nodes \in [S -> Components]
    /\ edges \in SeqsUpTo(Ids \X Ids, MaxFairEdges)
    /\ pc = "execute"
    /\ InitLocals
    /\ NoComponentCall
    /\ NoCacheCall

FairSpec ==
    /\ InitFair
    /\ [][Next]_vars
    /\ WF_vars(CallerNext)
    /\ \A id \in Ids : WF_vars(ThreadNext(id))

\* The flows build_schedule is called on directly, as the unit tests do;
\* the components play no part in it.
InitSchedule ==
    /\ \E S \in SUBSET Ids : nodes = [id \in S |-> UnknownComponent]
    /\ edges \in SeqsUpTo(Ids \X Ids, MaxEdges)
    /\ pc = "build_start"
    /\ InitLocals
    /\ NoComponentCall
    /\ NoCacheCall

NextSchedule ==
    \/ BuildStart
    \/ LevelStep
    \/ BuildFinish

SpecSchedule == InitSchedule /\ [][NextSchedule]_vars

\* build_schedule run to its end: it is sequential code of the calling
\* thread, which takes its next step.  The node map holds the first k ids
\* (every other node map is one of these with the ids renamed); the edges
\* run between all ids.
InitLoop ==
    /\ \E k \in 0..NumIds : nodes = [id \in 1..k |-> UnknownComponent]
    /\ edges \in SeqsUpTo(Ids \X Ids, MaxLoopEdges)
    /\ pc = "build_start"
    /\ InitLocals
    /\ NoComponentCall
    /\ NoCacheCall

FairSchedule == InitLoop /\ [][NextSchedule]_vars /\ WF_vars(NextSchedule)

\* Component::execute (mod.rs 94-98) called on its own, as the unit tests of
\* the components do.
ExecuteComponent ==
    /\ pc = "call"
    /\ call_output' = ComponentExecute(call_self, call_prev)
    /\ pc' = "returned"
    /\ UNCHANGED <<nodes, edges, previous, call_self, call_prev>>
    /\ UNCHANGED pageVars
    /\ UNCHANGED cacheVars
    /\ UNCHANGED buildVars
    /\ UNCHANGED runVars

\* The predecessor outputs a component is called with: none, one list, or a
\* first list followed by a further one.
PrevInputs ==
    {<<>>} \cup {<<l>> : l \in TrackLists}
           \cup {<<l, m>> : l \in TrackLists, m \in {<<>>, <<"t3", "t1">>}}

\* The predecessor outputs a deduplicating filter is called with.
FullPrevInputs ==
    {<<>>} \cup {<<l>> : l \in FullTrackLists}
           \cup {<<l, m>> : l, m \in SeqsUpTo(FullTracks, 1)}

\* The calls of a component on its own.
InitComponents ==
    /\ nodes = EmptyMap
    /\ edges = <<>>
    /\ pc = "call"
    /\ InitLocals
    /\ NoCacheCall
    /\ \/ /\ call_self \in TakeComponents \cup {AlbumComponent}
          /\ call_prev \in PrevInputs
       \/ /\ call_self \in {DedupTrackComponent, DedupArtistComponent}
          /\ call_prev \in FullPrevInputs
    /\ call_output = [tag |-> "none", tracks |-> <<>>]

NextComponents == ExecuteComponent

SpecComponents == InitComponents /\ [][NextComponents]_vars

(***************************************************************************)
(* UserLikedTracks::execute (source_user_liked_tracks.rs 22-38).  The      *)
(* provider holds the saved tracks of the user in its order; item k is the *)
(* k-th of them, and the page asked for at an offset holds the items that  *)
(* follow the offset, as many as the provider chooses to deliver, at most  *)
(* the page size asked for.                                                *)
(***************************************************************************)
PageSize == 50
OffsetCap == 949
\* Line 21, `Limited by most recent [1-999]`: the most tracks of a result.
MaxLiked == 999

LikedComponent == [component |-> "source:user_liked_tracks"]

\* The page of n items at offset o.
PageAt(o, n) == [i \in 1..n |-> o + i]

\* A variant of BreaksLoop that lets one more full page in.
BreaksLoop_Late(o, items) == o >= OffsetCap + PageSize \/ items = <<>>

\* Line 31: `if offset >= 949 || page.items.is_empty() { break; }`, tested
\* after the page was fetched.
BreaksLoop(o, items) == o >= OffsetCap \/ items = <<>>

\* Lines 25-35, one iteration of the loop: the request, which may fail (the
\* `?` returns the error), the test, and the extension of `tracks`.
LikedIteration ==
    /\ pc = "liked_loop"
    /\ \/ /\ call_output' = [tag |-> "Err", tracks |-> <<>>]
          /\ pc' = "returned"
          /\ UNCHANGED pageVars
       \/ \E n \in 0..PageSize :
             LET items == PageAt(offset, n)
             IN  /\ fetched' = fetched \o items
                 /\ IF BreaksLoop(offset, items)
                    THEN /\ call_output' = [tag |-> "Ok", tracks |-> liked_tracks]
                         /\ pc' = "returned"
                         /\ UNCHANGED <<offset, liked_tracks>>
                    ELSE /\ offset' = offset + Len(items)
                         /\ liked_tracks' = liked_tracks \o items
                         /\ UNCHANGED <<pc, call_output>>
    /\ UNCHANGED <<nodes, edges, previous, call_self, call_prev>>
    /\ UNCHANGED buildVars
    /\ UNCHANGED runVars
    /\ UNCHANGED cacheVars

\* A call of UserLikedTracks::execute; it ignores prev.
InitLiked ==
    /\ nodes = EmptyMap
    /\ edges = <<>>
    /\ pc = "liked_loop"
    /\ InitLocals
    /\ NoCacheCall
    /\ call_self = LikedComponent
    /\ call_prev \in {<<>>, <<<<"t1">>>>}
    /\ call_output = [tag |-> "none", tracks |-> <<>>]

NextLiked == LikedIteration

SpecLiked == InitLiked /\ [][NextLiked]_vars

\* The call when every request gets its answer: the loop of lines 25-36 is
\* sequential code of one thread, which takes its next iteration.
FairLiked == InitLiked /\ [][NextLiked]_vars /\ WF_vars(LikedIteration)

(***************************************************************************)
(* get_or_create (cache.rs 56-97), for one key.  The function is async:    *)
(* between its Redis commands other calls run and Redis may expire the     *)
(* key.  A value of T is written as a JSON string.                         *)
(***************************************************************************)

\* serde_json::to_string (line 90).
ToJson(data) == <<"json", data>>

\* serde_json::from_str (line 79) of a string that to_string has made.
FromJson(str) == str[2]

\* The value the callback of call c computes.
FreshValue(c) == <<"fresh", c>>

\* The value stored before the calls.
OldValue == <<"old">>

Returns(c, r) == calls' = [calls EXCEPT ![c].pc = "returned", ![c].ret = r]

\* Lines 68-73, get_con(&pool).await?: a connection, or the pool error.
GetCon(c) ==
    /\ calls[c].pc = "get_con"
    /\ \/ Returns(c, [tag |-> "Err", error |-> "pool"])
       \/ calls' = [calls EXCEPT ![c].pc = IF calls[c].reset = FALSE THEN "exists"
                                           ELSE "callback"]
    /\ UNCHANGED redis

\* Lines 74-75, con.exists(key).await: whether the key is there now.
Exists(c) ==
    /\ calls[c].pc = "exists"
    /\ \/ Returns(c, [tag |-> "Err", error |-> "io"])
       \/ LET exists == redis # <<>>
          IN  calls' = [calls EXCEPT ![c].exists = exists,
                                     ![c].pc = IF exists = TRUE THEN "get" ELSE "callback"]
    /\ UNCHANGED redis

\* Lines 78-81, `let res: String = con.get(key).await...?`: the reply for a
\* key that is gone is nil, which is no String, so the conversion fails and
\* the error is returned; otherwise the string is parsed and returned.
GetReply(c, stored) ==
    IF stored = <<>> THEN [tag |-> "Err", error |-> "nil"]
    ELSE [tag |-> "Ok", data |-> FromJson(stored[1])]

\* Lines 78-81.
Get(c) ==
    /\ calls[c].pc = "get"
    /\ \/ Returns(c, [tag |-> "Err", error |-> "io"])
       \/ Returns(c, GetReply(c, redis))
    /\ UNCHANGED redis

\* Line 89: the callback runs and returns a value or an error.
Callback(c) ==
    /\ calls[c].pc = "callback"
    /\ \/ calls' = [calls EXCEPT ![c].pc = "returned",
                                  ![c].callback_ran = TRUE,
                                  ![c].ret = [tag |-> "Err", error |-> "callback"]]
       \/ calls' = [calls EXCEPT ![c].pc = "set_ex",
                                  ![c].callback_ran = TRUE,
                                  ![c].data = FreshValue(c)]
    /\ UNCHANGED redis

\* Lines 90-96: the value is serialized and stored with the ttl, and
\* returned.
SetEx(c) ==
    /\ calls[c].pc = "set_ex"
    /\ \/ /\ Returns(c, [tag |-> "Err", error |-> "io"])
          /\ UNCHANGED redis
       \/ /\ redis' = <<ToJson(calls[c].data)>>
          /\ calls' = [calls EXCEPT ![c].pc = "returned",
                                     ![c].wrote = TRUE,
                                     ![c].ret = [tag |-> "Ok", data |-> calls[c].data]]

\* Redis removes the key when its ttl has run out (set_ex, line 92).
KeyExpires ==
    /\ redis # <<>>
    /\ redis' = <<>>
    /\ UNCHANGED calls

CacheStep(A) ==
    /\ A
    /\ UNCHANGED <<nodes, edges, pc>>
    /\ UNCHANGED buildVars
    /\ UNCHANGED runVars
    /\ UNCHANGED <<previous, call_self, call_prev, call_output>>
    /\ UNCHANGED pageVars

\* Concurrent calls of get_or_create on one key, as two requests for
\* /api/v1/spotify/user_playlists of one user make them.
InitCache ==
    /\ nodes = EmptyMap
    /\ edges = <<>>
    /\ pc = "serving"
    /\ InitLocals
    /\ NoComponentCall
    /\ redis \in {<<>>, <<ToJson(OldValue)>>}
    /\ \E resets \in [Callers -> BOOLEAN] :
          calls = [c \in Callers |-> [IdleCall EXCEPT !.pc = "get_con", !.reset = resets[c]]]

NextCache ==
    \/ \E c \in Callers : CacheStep(GetCon(c))
    \/ \E c \in Callers : CacheStep(Exists(c))
    \/ \E c \in Callers : CacheStep(Get(c))
    \/ \E c \in Callers : CacheStep(Callback(c))
    \/ \E c \in Callers : CacheStep(SetEx(c))
    \/ CacheStep(KeyExpires)

SpecCache == InitCache /\ [][NextCache]_vars

\* build_schedule called twice on one flow.
NextTwice ==
    \/ BuildStart
    \/ LevelStep
    \/ BuildFinish
    \/ BuildAgain

SpecTwice == InitSchedule /\ [][NextTwice]_vars

(***************************************************************************)
(* Vocabulary of the properties.                                           *)
(***************************************************************************)

\* Every edge endpoint is a key of the node map.
WellFormed ==
    \A i \in DOMAIN edges : edges[i][1] \in DOMAIN nodes /\ edges[i][2] \in DOMAIN nodes

Successors(S) == {edges[i][2] : i \in {j \in DOMAIN edges : edges[j][1] \in S}}

RECURSIVE ReachWithin(_, _)
ReachWithin(S, k) == IF k = 0 THEN S ELSE ReachWithin(S \cup Successors(S), k - 1)

\* The ids reachable from a by one edge or more.
Descendants(a) == ReachWithin(Successors({a}), NumIds)

HasCycle == \E a \in Ids : a \in Descendants(a)

Predecessors(n) == {edges[i][1] : i \in {j \in DOMAIN edges : edges[j][2] = n}}

Scheduled(n) == \E i \in DOMAIN schedule : n \in Range(schedule[i])

\* The (1-based) index of the batch that holds n.
BatchOf(n) == CHOOSE i \in DOMAIN schedule : n \in Range(schedule[i])

\* The number of places of the schedule that hold n.
Occurrences(n) ==
    Cardinality(UNION {{<<b, i>> : i \in {j \in DOMAIN schedule[b] : schedule[b][j] = n}} :
                          b \in DOMAIN schedule})

MaxOf(S) == CHOOSE m \in S : \A x \in S : x <= m

BuildReturned == pc = "built"

(***************************************************************************)
(* Properties of build_schedule, checked under SpecSchedule.               *)
(***************************************************************************)

\* C1: for an acyclic graph whose edge endpoints are all nodes, build_schedule
\* returns a schedule in which the target of every edge is in a later batch
\* than its source, so that no two members of a batch are joined by an edge,
\* and in which no batch is empty (the batch indices are contiguous).
C1_EdgesGoForward ==
    (BuildReturned /\ WellFormed /\ ~HasCycle) =>
        /\ build_result = "Ok"
        /\ \A i \in DOMAIN edges :
              /\ Scheduled(edges[i][1])
              /\ Scheduled(edges[i][2])
              /\ BatchOf(edges[i][1]) < BatchOf(edges[i][2])
        /\ \A b \in DOMAIN schedule :
              /\ schedule[b] # <<>>
              /\ \A i \in DOMAIN edges :
                    ~(edges[i][1] \in Range(schedule[b]) /\ edges[i][2] \in Range(schedule[b]))

\* C1 witness: a returned schedule of three batches for a well-formed acyclic
\* graph in which one node has two predecessors in different batches.
C1_Witness ==
    /\ BuildReturned /\ WellFormed /\ ~HasCycle
    /\ build_result = "Ok"
    /\ Len(schedule) = 3
    /\ \E n \in DOMAIN nodes : Cardinality(Predecessors(n)) = 2

\* C2 (as claimed): for every graph whose edge relation has a cycle,
\* build_schedule returns an error and no schedule.
C2_CycleIsError ==
    (BuildReturned /\ HasCycle) => (build_result = "Err" /\ schedule = <<>>)

\* C3: for an acyclic graph whose edge endpoints are all nodes, build_schedule
\* returns Ok and every node of the graph is at exactly one place of the
\* schedule, which holds nothing but nodes.
C3_DagIsScheduled ==
    (BuildReturned /\ WellFormed /\ ~HasCycle) =>
        /\ build_result = "Ok"
        /\ \A n \in DOMAIN nodes : Occurrences(n) = 1
        /\ ScheduledNodes(schedule) = DOMAIN nodes

\* C3 witness: a well-formed acyclic graph with three nodes and a join has
\* been scheduled.
C3_Witness ==
    /\ BuildReturned /\ WellFormed /\ ~HasCycle
    /\ build_result = "Ok"
    /\ Cardinality(DOMAIN nodes) = 3
    /\ Len(edges) >= 2
    /\ \A n \in DOMAIN nodes : Occurrences(n) = 1

\* C4: in a schedule that build_schedule returns, a node with no incoming
\* edge is in the first batch and every other scheduled id is in the batch
\* right after the latest batch of its predecessors, whatever the other
\* parts of the graph are.
C4_EarliestBatch ==
    (BuildReturned /\ build_result = "Ok") =>
        /\ \A n \in DOMAIN nodes :
              Predecessors(n) = {} => (Scheduled(n) /\ BatchOf(n) = 1)
        /\ \A n \in ScheduledNodes(schedule) :
              Predecessors(n) # {} =>
                  /\ \A p \in Predecessors(n) : Scheduled(p)
                  /\ BatchOf(n) = 1 + MaxOf({BatchOf(p) : p \in Predecessors(n)})

\* C4 witness: two disconnected parts, an edge a -> b and a lone node c; c
\* shares the first batch with a, and b is in the second batch.
C4_Witness ==
    /\ BuildReturned /\ build_result = "Ok" /\ WellFormed
    /\ Len(schedule) = 2
    /\ Len(schedule[1]) = 2
    /\ \E n \in Range(schedule[2]) : Predecessors(n) # {}
    /\ \E n \in Range(schedule[1]) :
          Predecessors(n) = {} /\ Successors({n}) = {}

(***************************************************************************)
(* Properties of execute, checked under Spec.                              *)
(***************************************************************************)

Active(id) == task[id] \in {"running", "want_write", "writing"}

\* The cache entries of the predecessors of a node, in the order in which
\* the edges into the node are declared.
PredecessorOutputs(id) ==
    LET Into(e) == e[2] = id
        into == SelectSeq(edges, Into)
    IN  [i \in DOMAIN into |-> cache[into[i][1]]]

\* C5: the batches run one after the other.  Every thread that exists was
\* spawned for a member of the batch it was spawned in, no later than the
\* current batch; every member of every earlier batch has run and ended
\* before the current batch was entered; and no more threads run at a time
\* than the current batch has members.
C5_BatchesSequential ==
    /\ \A id \in Ids :
          task[id] # "idle" =>
              /\ started_in[id] \in 1..batch_no
              /\ id \in Range(schedule[started_in[id]])
    /\ \A b \in 1..(batch_no - 1) : \A n \in Range(schedule[b]) : task[n] = "done"
    /\ \A id \in Ids : Active(id) => started_in[id] = batch_no
    /\ Cardinality({id \in Ids : Active(id)}) <=
          (IF batch_no = 0 THEN 0 ELSE Len(schedule[batch_no]))

\* C5 witness: a thread of the second batch runs after a first batch of two.
C5_Witness ==
    /\ batch_no = 2
    /\ Len(schedule[1]) = 2
    /\ \E id \in Range(schedule[2]) : Active(id)

\* C6: when the thread of a node is spawned, the cache holds an entry for
\* every source of an edge into that node.
C6_PredecessorsCached ==
    [][\A id \in Ids :
          (task[id] = "idle" /\ task'[id] # "idle") =>
              \A p \in Predecessors(id) : p \in DOMAIN cache]_vars

\* C6 witness: the thread of a node with two predecessors is running.
C6_Witness ==
    \E id \in Ids : task[id] = "running" /\ Cardinality(Predecessors(id)) = 2

\* C7 (as claimed): the entry stored for a node is the TrackList that the
\* node's component returns when executed on the cache entries of the
\* node's predecessors, taken in edge order.
C7_StoresExecuteResult ==
    \A id \in DOMAIN cache :
        (\A p \in Predecessors(id) : p \in DOMAIN cache) =>
            cache[id] = ComponentExecute(nodes[id], PredecessorOutputs(id)).tracks

\* C8: once a thread of batch k has panicked, the run stays in batch k: no
\* thread of a later batch is ever spawned.
C8_FailureStopsRun ==
    \A id \in Ids :
        task[id] = "panicked" =>
            /\ batch_no = started_in[id]
            /\ \A j \in Ids : started_in[j] <= started_in[id]

\* C8 witness: the run has ended after a thread of a batch panicked, and the
\* schedule has a later batch.
C8_Witness ==
    /\ pc = "done"
    /\ \E id \in Ids : task[id] = "panicked" /\ started_in[id] < Len(schedule)

\* C9 (as claimed): when a node's thread has failed, execute returns an Err
\* value to its caller.
C9_FailureReturnsErr ==
    (pc = "done" /\ \E id \in Ids : task[id] = "panicked") => result = "Err"

\* C10: when a panic leaves execute, every thread spawned in the batch has
\* ended, and each of them whose own component does not fail has written
\* its cache entry.
C10_SiblingsComplete ==
    [][(result = "none" /\ result' = "panic") =>
          \A i \in DOMAIN handles :
              /\ Finished(handles[i])
              /\ ~UnwrapPanics(nodes[handles[i]]) =>
                    (task[handles[i]] = "done" /\ handles[i] \in DOMAIN cache)]_vars

\* C10 witness: the calling thread has met the panic of one thread while a
\* sibling with a known component is still running.
C10_Witness ==
    /\ pc = "scope_exit"
    /\ \E p, s \in Range(handles) :
          /\ task[p] = "panicked"
          /\ task[s] = "running"
          /\ ~UnwrapPanics(nodes[s])


\* C11: while the cache of a run exists, an entry appears only on the step
\* on which the thread of the node with that id ends its insert, that thread
\* inserts under a key that has no entry yet, one step adds at most that one
\* key, and no entry is changed or removed.
C11_WriteOnce ==
    [][(cache_alive /\ cache_alive') =>
          /\ \A k \in DOMAIN cache : k \in DOMAIN cache' /\ cache'[k] = cache[k]
          /\ \A k \in DOMAIN cache' \ DOMAIN cache :
                /\ task[k] = "writing" /\ task'[k] = "done"
                /\ writers = {k}
                /\ DOMAIN cache' = DOMAIN cache \cup {k}
          /\ \A k \in Ids :
                (task[k] = "writing" /\ task'[k] = "done") =>
                    (k \notin DOMAIN cache /\ k \in DOMAIN cache')]_vars

\* C11 witness: the threads of three nodes, spread over two batches, have
\* each inserted their entry.
C11_Witness ==
    /\ cache_alive
    /\ Cardinality(DOMAIN cache) = 3
    /\ batch_no = 2


\* C12 (as claimed): after a run in which no node failed, the cache holds
\* one entry per node and is handed to the caller of execute.
C12_CacheHandedBack ==
    (pc = "done" /\ result = "Ok") => (cache_alive /\ DOMAIN cache = DOMAIN nodes)

\* C13 (as claimed): a node whose component is unknown, or whose parameters
\* do not fit, never reaches execution: no thread is ever spawned for it.
C13_UnknownNeverRuns ==
    \A id \in Ids : task[id] # "idle" => ~UnwrapPanics(nodes[id])

\* C14 (as claimed): build_schedule and execute never work on a flow with an
\* edge endpoint that is no key of the node map.
C14_EndpointsValidated ==
    pc # "execute" => WellFormed


EmptyFlow == DOMAIN nodes = {} /\ edges = <<>>

\* C15: on the empty flow build_schedule returns Ok with the empty schedule,
\* and execute returns Ok; no thread is spawned and the cache stays empty.
C15_EmptyFlow ==
    EmptyFlow =>
        /\ pc = "built" => (build_result = "Ok" /\ schedule = <<>>)
        /\ pc \in {"batch", "for_batch", "scope_exit"} => FALSE
        /\ pc = "done" => result = "Ok"
        /\ \A id \in Ids : task[id] = "idle" /\ started_in[id] = 0
        /\ handles = <<>>
        /\ cache = EmptyMap

\* C15 witness: execute has returned Ok on the empty flow.
C15_Witness ==
    EmptyFlow /\ pc = "done" /\ result = "Ok" /\ build_result = "Ok" /\ schedule = <<>>

\* C16: for a flow of one node or more and no edge, build_schedule returns
\* Ok with exactly one batch, which holds every node once.
C16_NoEdgesOneBatch ==
    (BuildReturned /\ edges = <<>> /\ DOMAIN nodes # {}) =>
        /\ build_result = "Ok"
        /\ Len(schedule) = 1
        /\ Range(schedule[1]) = DOMAIN nodes
        /\ Len(schedule[1]) = Cardinality(DOMAIN nodes)

\* C16 witness: three nodes without an edge share the one batch.
C16_Witness ==
    /\ BuildReturned /\ edges = <<>>
    /\ Cardinality(DOMAIN nodes) = 3
    /\ Len(schedule) = 1
    /\ Len(schedule[1]) = 3


\* The edges of the chain c[1] -> c[2] -> ... -> c[Len(c)].
ChainEdges(c) == {<<c[i], c[i + 1]>> : i \in 1..(Len(c) - 1)}

\* The flow is the linear chain c: its nodes are those of c and its edge list
\* holds each chain edge once, in any order.
IsChain(c) ==
    /\ Len(c) >= 1
    /\ Range(c) = DOMAIN nodes
    /\ Len(edges) = Len(c) - 1
    /\ Range(edges) = ChainEdges(c)

\* C17: a linear chain of k nodes compiles to k batches of one node each, in
\* chain order, whatever the order of the edge list and whatever the
\* iteration order of the maps.
C17_ChainInOrder ==
    BuildReturned =>
        \A c \in Orderings(DOMAIN nodes) :
            IsChain(c) =>
                /\ build_result = "Ok"
                /\ schedule = [i \in 1..Len(c) |-> <<c[i]>>]

\* C17 witness: the chain 3 -> 1 -> 2, its edges listed against the chain
\* order, has been compiled.
C17_Witness ==
    /\ BuildReturned
    /\ IsChain(<<3, 1, 2>>)
    /\ edges = <<<<1, 2>>, <<3, 1>>>>
    /\ schedule = <<<<3>>, <<1>>, <<2>>>>

\* The number of edges into n, an edge listed twice counted twice.
IncomingEdges(n) == Cardinality({i \in DOMAIN edges : edges[i][2] = n})

\* C18: in a well-formed acyclic flow a node with several incoming edges,
\* the same edge listed twice included, is in the schedule exactly once, in a
\* batch after the batch of each of its predecessors.
C18_JoinScheduledOnce ==
    (BuildReturned /\ WellFormed /\ ~HasCycle) =>
        \A n \in DOMAIN nodes :
            IncomingEdges(n) >= 2 =>
                /\ Occurrences(n) = 1
                /\ \A p \in Predecessors(n) :
                      Scheduled(p) /\ BatchOf(p) < BatchOf(n)

\* C18 witness: a scheduled node with two predecessors, one of them by an
\* edge listed twice.
C18_Witness ==
    /\ BuildReturned /\ WellFormed /\ ~HasCycle
    /\ \E n \in DOMAIN nodes :
          /\ Cardinality(Predecessors(n)) = 2
          /\ \E i, j \in DOMAIN edges : i # j /\ edges[i] = edges[j] /\ edges[i][2] = n
          /\ Occurrences(n) = 1


\* The second call of build_schedule on the flow has returned.
BuiltTwice == pc = "built" /\ previous.ran

\* C19: two calls of build_schedule on one flow return the same outcome, the
\* same number of batches and, position by position, the same set of nodes;
\* only the order inside a batch may differ.
C19_SameBatchSets ==
    BuiltTwice =>
        /\ build_result = previous.result
        /\ Len(schedule) = Len(previous.schedule)
        /\ \A i \in DOMAIN schedule :
              Range(schedule[i]) = Range(previous.schedule[i])

\* C19 witness: the two calls returned schedules of two batches or more that
\* differ in the order inside a batch.
C19_Witness ==
    /\ BuiltTwice
    /\ build_result = "Ok"
    /\ Len(schedule) >= 2
    /\ \E i \in DOMAIN schedule : schedule[i] # previous.schedule[i]


Min(a, b) == IF a < b THEN a ELSE b

\* A call of Take on at least one predecessor list has returned.
TakeReturned ==
    /\ pc = "returned"
    /\ call_self.component = "filter:take"
    /\ call_prev # <<>>

\* C20: Take with a `from` other than exactly "end" returns the first
\* min(limit, len) tracks of its first predecessor list, in their order.
C20_TakeFromStart ==
    (TakeReturned /\ call_self.from # "end") =>
        /\ call_output.tag = "Ok"
        /\ Len(call_output.tracks) = Min(call_self.limit, Len(call_prev[1]))
        /\ \A i \in DOMAIN call_output.tracks :
              call_output.tracks[i] = call_prev[1][i]

\* C20 witness: Take(limit 2, from "End") has returned the first two of
\* three tracks.
C20_Witness ==
    /\ TakeReturned
    /\ call_self.from = "End"
    /\ call_self.limit = 2
    /\ call_prev[1] = <<"t3", "t1", "t2">>
    /\ call_output.tracks = <<"t3", "t1">>


\* The list s read from its last element to its first.
Reversed(s) == [i \in 1..Len(s) |-> s[Len(s) + 1 - i]]

\* C21: Take with from = "end" returns the last min(limit, len) tracks of its
\* first predecessor list, the last one first: the i-th track of the result
\* (counted from 0) is the track len-1-i of the input.
C21_TakeFromEnd ==
    (TakeReturned /\ call_self.from = "end") =>
        /\ call_output.tag = "Ok"
        /\ Len(call_output.tracks) = Min(call_self.limit, Len(call_prev[1]))
        /\ \A i \in DOMAIN call_output.tracks :
              call_output.tracks[i] = call_prev[1][Len(call_prev[1]) + 1 - i]

\* C21 witness: Take(limit 2, from "end") has returned the last two of three
\* tracks, the last one first.
C21_Witness ==
    /\ TakeReturned
    /\ call_self.from = "end"
    /\ call_self.limit = 2
    /\ call_prev[1] = <<"t3", "t1", "t2">>
    /\ call_output.tracks = <<"t2", "t1">>

\* C22: in both directions Take with limit 0 returns the empty list, and
\* Take with a limit above the length of the input returns Ok with every
\* input track, reversed when from = "end", and nothing else.
C22_TakeLimitEdges ==
    TakeReturned =>
        /\ call_self.limit = 0 =>
              (call_output.tag = "Ok" /\ call_output.tracks = <<>>)
        /\ call_self.limit > Len(call_prev[1]) =>
              /\ call_output.tag = "Ok"
              /\ call_output.tracks =
                    IF call_self.from = "end" THEN Reversed(call_prev[1])
                    ELSE call_prev[1]

\* C22 witness: Take(limit 4, from "end") has returned on a list of three
\* tracks.
C22_Witness ==
    /\ TakeReturned
    /\ call_self.from = "end"
    /\ call_self.limit > Len(call_prev[1])
    /\ Len(call_prev[1]) = 3
    /\ Len(call_output.tracks) = 3
    /\ call_output.tracks # call_prev[1]


\* A call of the component named tag on at least one predecessor list has
\* returned.
FilterReturned(tag) ==
    /\ pc = "returned"
    /\ call_self.component = tag
    /\ call_prev # <<>>

\* The numbers of the finite set P in increasing order.
Ascending(P) ==
    CHOOSE q \in [1..Cardinality(P) -> P] :
        \A a, b \in DOMAIN q : a < b => q[a] < q[b]

\* No earlier track of s has the track key of s[i].
FirstOfTrackKey(s, i) ==
    \A j \in 1..(i - 1) : TrackKey(s[j]) # TrackKey(s[i])

\* C23: DeduplicateTrack returns, in input order, exactly the tracks of its
\* first predecessor list that no earlier track shares the key with, each
\* as it was in the input; no two tracks of the output have the same key.
C23_FirstOfEachTrackKey ==
    FilterReturned("filter:dedup_track") =>
        LET in == call_prev[1]
            out == call_output.tracks
            kept == Ascending({i \in DOMAIN in : FirstOfTrackKey(in, i)})
        IN  /\ call_output.tag = "Ok"
            /\ out = [k \in DOMAIN kept |-> in[kept[k]]]
            /\ \A a, b \in DOMAIN out :
                  a # b => TrackKey(out[a]) # TrackKey(out[b])

\* C23 witness: of three tracks the third, which has the id of the first and
\* another name, was dropped.
C23_Witness ==
    /\ FilterReturned("filter:dedup_track")
    /\ Len(call_prev[1]) = 3
    /\ call_prev[1][1].id = <<"x">>
    /\ call_prev[1][2].id = <<"y">>
    /\ call_prev[1][3].id = <<"x">>
    /\ call_prev[1][3].name # call_prev[1][1].name
    /\ call_output.tracks = <<call_prev[1][1], call_prev[1][2]>>


\* The key of the first-listed artist of a track that has artists.
PrimaryKey(track) == ArtistKey(track.artists[1])

\* s[i] has no artist, or no earlier track of s has its primary artist key
\* as its own primary artist key.
FirstOfPrimaryKey(s, i) ==
    \/ s[i].artists = <<>>
    \/ \A j \in 1..(i - 1) :
          s[j].artists = <<>> \/ PrimaryKey(s[j]) # PrimaryKey(s[i])

\* C24: DeduplicateArtist keeps a track exactly when no earlier input track
\* has the same primary artist key; the artists listed after the first one
\* play no part, so a track whose primary artist was only a secondary artist
\* before is kept.
C24_FirstOfEachPrimaryArtist ==
    FilterReturned("filter:dedup_artist") =>
        LET in == call_prev[1]
            out == call_output.tracks
            kept == Ascending({i \in DOMAIN in : FirstOfPrimaryKey(in, i)})
        IN  /\ call_output.tag = "Ok"
            /\ out = [k \in DOMAIN kept |-> in[kept[k]]]

\* C24 witness: the second track's primary artist was the secondary artist
\* of the first track and the track was kept; the third track has the
\* primary artist of the first and was dropped.
C24_Witness ==
    /\ FilterReturned("filter:dedup_artist")
    /\ Len(call_prev[1]) = 3
    /\ call_prev[1][1].artists = <<ArtistA, ArtistB>>
    /\ call_prev[1][2].artists = <<ArtistB, ArtistA>>
    /\ call_prev[1][3].artists = <<ArtistA>>
    /\ call_output.tracks = <<call_prev[1][1], call_prev[1][2]>>

HasArtists(track) == track.artists # <<>>
HasNoArtists(track) == track.artists = <<>>

\* C25: DeduplicateArtist keeps every track without artists, however many
\* there are, and the tracks with artists that it keeps are those it keeps
\* when the tracks without artists are taken out of the input.
C25_ArtistlessKept ==
    FilterReturned("filter:dedup_artist") =>
        LET in == call_prev[1]
            out == call_output.tracks
        IN  /\ call_output.tag = "Ok"
            /\ SelectSeq(out, HasNoArtists) = SelectSeq(in, HasNoArtists)
            /\ SelectSeq(out, HasArtists) =
                  DeduplicateArtistExecute(<<SelectSeq(in, HasArtists)>>).tracks

\* C25 witness: the same track without artists came twice, a track with an
\* artist between them; all three are in the output.
C25_Witness ==
    /\ FilterReturned("filter:dedup_artist")
    /\ Len(call_prev[1]) = 3
    /\ HasNoArtists(call_prev[1][1])
    /\ call_prev[1][3] = call_prev[1][1]
    /\ HasArtists(call_prev[1][2])
    /\ call_output.tracks = call_prev[1]


\* C26 (as claimed): a filter called with an empty list of predecessor
\* outputs returns a result value, Ok or Err, and does not panic.
C26_NoPanicWithoutPredecessor ==
    (/\ pc = "returned"
     /\ call_prev = <<>>
     /\ call_self.component \in {"filter:take", "filter:dedup_track", "filter:dedup_artist"})
        => call_output.tag \in {"Ok", "Err"}


\* A call of UserLikedTracks::execute has returned.
LikedReturned == pc = "returned" /\ call_self = LikedComponent

\* C27 (as claimed): when UserLikedTracks returns Ok, its tracks are the
\* concatenation, in provider order, of every non-empty page it fetched.
C27_AllFetchedPagesReturned ==
    (LikedReturned /\ call_output.tag = "Ok") => call_output.tracks = fetched


\* C28 (as claimed): after a run that a node failure has ended, the cache
\* still exists and holds the entry of every node whose thread had ended
\* well, in an earlier batch or next to the failing node.
C28_EntriesSurviveAbort ==
    (pc = "done" /\ \E id \in Ids : task[id] = "panicked") =>
        /\ cache_alive
        /\ \A id \in Ids : task[id] = "done" => id \in DOMAIN cache


\* Call c of get_or_create has returned.
CallReturned(c) == calls[c].pc = "returned"

\* Call c was made with reset = false and found the key in Redis.
FoundKey(c) == calls[c].reset = FALSE /\ calls[c].exists

\* C29 (as claimed): the callback runs only for reset = true or a key that
\* is not in Redis; a call with reset = false that finds the key returns the
\* stored value, does not run the callback and writes nothing (unless the
\* connection to Redis fails).
C29_CachedValueReturned ==
    \A c \in Callers :
        /\ calls[c].callback_ran => (calls[c].reset \/ ~calls[c].exists)
        /\ (/\ CallReturned(c)
            /\ FoundKey(c)
            /\ ~(calls[c].ret.tag = "Err" /\ calls[c].ret.error = "io"))
              => /\ calls[c].ret.tag = "Ok"
                 /\ ~calls[c].callback_ran
                 /\ ~calls[c].wrote


\* The states of a run: execute not yet entered, under way, returned.
RunState ==
    CASE pc = "execute" -> "Pending"
      [] pc = "done" /\ result = "Ok" -> "Completed"
      [] pc = "done" /\ result # "Ok" -> "Failed"
      [] OTHER -> "Running"

\* A run changes its state from Pending to Running and from Running to
\* Completed or to Failed only.
RunStateStep ==
    \/ RunState' = RunState
    \/ RunState = "Pending" /\ RunState' = "Running"
    \/ RunState = "Running" /\ RunState' \in {"Completed", "Failed"}

\* Every thread that was spawned and whose component does not fail has
\* ended after its insert.
SpawnedThreadsDone ==
    \A id \in Ids :
        (started_in[id] > 0 /\ ~UnwrapPanics(nodes[id])) => task[id] = "done"

\* A thread ends well only by the insert it makes while it holds the write
\* lock.
EndsByInsert ==
    \A id \in Ids :
        (task[id] # "done" /\ task'[id] = "done") =>
            (task[id] = "writing" /\ writers = {id} /\ id \in DOMAIN cache')

\* C30: a run goes from Pending to Running and to exactly one of Completed
\* and Failed; under a fair scheduler it always gets there, and by then
\* every thread whose component does not fail has got the write lock of the
\* cache, inserted its entry and ended: no interleaving of the threads
\* deadlocks.
C30_RunTerminates ==
    /\ [][RunStateStep /\ EndsByInsert]_vars
    /\ <>(RunState \in {"Completed", "Failed"} /\ SpawnedThreadsDone)

\* C30 witness: three threads of one batch contend for the write lock; one
\* holds it and two wait for it.
C30_Witness ==
    \E id \in Ids :
        /\ task[id] = "writing"
        /\ Cardinality({k \in Ids : task[k] = "want_write"}) = 2


\* C31 (as claimed): whenever build_schedule returns Ok, whatever the node
\* map and the edge list, the ids of the schedule are the keys of the node
\* map.
C31_ScheduleIdsAreNodeKeys ==
    (BuildReturned /\ build_result = "Ok") =>
        ScheduledNodes(schedule) = DOMAIN nodes


\* The display name of the first-listed artist of a track, "" when the track
\* has no artist.
PrimaryArtistName(track) ==
    IF track.artists # <<>> THEN track.artists[1].name ELSE ""

\* Two tracks are the same track: both have the same id, or neither has an
\* id and their names and the names of their primary artists are the same.
SameTrack(a, b) ==
    IF a.id # <<>> /\ b.id # <<>> THEN a.id = b.id
    ELSE /\ a.id = <<>>
         /\ b.id = <<>>
         /\ a.name = b.name
         /\ PrimaryArtistName(a) = PrimaryArtistName(b)

\* C32 (as claimed): DeduplicateTrack drops a track without id if and only
\* if an earlier track without id has the same name and the same primary
\* artist name; tracks without id that differ in either are both kept, and
\* a track without id is never merged with a track that has an id.
C32_IdlessDuplicates ==
    FilterReturned("filter:dedup_track") =>
        LET in == call_prev[1]
            out == call_output.tracks
            kept == Ascending({i \in DOMAIN in :
                        \A j \in 1..(i - 1) : ~SameTrack(in[j], in[i])})
        IN  out = [k \in DOMAIN kept |-> in[kept[k]]]


\* The list s is the list t with some of its elements left out.
RECURSIVE IsSubsequence(_, _)
IsSubsequence(s, t) ==
    IF s = <<>> THEN TRUE
    ELSE IF t = <<>> THEN FALSE
    ELSE IF Head(s) = Head(t) THEN IsSubsequence(Tail(s), Tail(t))
    ELSE IsSubsequence(s, Tail(t))

\* The tags of the filters.
FilterTags == {"filter:take", "filter:dedup_track", "filter:dedup_artist"}

\* C33: a filter returns tracks of its first predecessor list only, each as
\* it was: the output of DeduplicateTrack, of DeduplicateArtist and of Take
\* with from other than "end" is a subsequence of that list, the output of
\* Take with from = "end" is a subsequence of the reversed list, and the
\* result is the one the filter returns for the first list alone.
C33_FiltersOnlySelect ==
    (pc = "returned" /\ call_self.component \in FilterTags /\ call_prev # <<>>) =>
        LET in == call_prev[1]
            out == call_output.tracks
            fromEnd == call_self.component = "filter:take" /\ call_self.from = "end"
        IN  /\ call_output.tag = "Ok"
            /\ IsSubsequence(out, IF fromEnd THEN Reversed(in) ELSE in)
            /\ call_output = ComponentExecute(call_self, <<in>>)

\* C33 witness: DeduplicateTrack was called with two predecessor lists that
\* differ and returned the track of the first one.
C33_Witness ==
    /\ FilterReturned("filter:dedup_track")
    /\ Len(call_prev) = 2
    /\ Len(call_prev[1]) = 1
    /\ Len(call_prev[2]) = 1
    /\ call_prev[2] # call_prev[1]
    /\ call_output.tracks = call_prev[1]


\* C34: a call of UserLikedTracks whose requests are all answered returns,
\* whatever the sizes of the pages (at most the 50 items asked for, an empty
\* page or an error included), and neither the list it builds nor the list
\* it returns is ever longer than 999 tracks.
C34_LikedTerminatesBounded ==
    /\ [](Len(liked_tracks) <= MaxLiked /\ Len(call_output.tracks) <= MaxLiked)
    /\ <>LikedReturned

\* C34 witness: the provider delivered a full page to every request; the
\* call returned the 998 tracks it had when the offset passed 949, and left
\* the page fetched last out.
C34_Witness ==
    /\ LikedReturned
    /\ call_output.tag = "Ok"
    /\ Len(call_output.tracks) = MaxLiked - 1
    /\ Len(fetched) = MaxLiked - 1 + PageSize


\* C35: build_schedule returns for every node map and edge list, cyclic
\* graphs, self-loops, duplicate edges and edges with endpoints outside the
\* node map included, and by the final count check the level loop has run
\* at most once per scheduled id.
C35_BuildTerminates ==
    /\ []((pc = "build_loop" \/ build_result = "Ok") =>
             loop_passes <= Cardinality(ScheduledNodes(schedule)))
    /\ <>BuildReturned

\* C35 witness: a chain of three nodes was scheduled in three batches by
\* three passes of the level loop.
C35_Witness ==
    /\ BuildReturned
    /\ build_result = "Ok"
    /\ DOMAIN nodes = Ids
    /\ Len(schedule) = 3
    /\ loop_passes = 3


\* C36 (as claimed): a call with reset = false whose key passed the
\* existence check does not fail (unless the connection to Redis does) and
\* returns a value that was cached or that a callback has computed, also
\* when the key expires between the EXISTS and the GET.
C36_SurvivesExpiry ==
    \A c \in Callers :
        (/\ CallReturned(c)
         /\ FoundKey(c)
         /\ ~(calls[c].ret.tag = "Err" /\ calls[c].ret.error = "io"))
           => /\ calls[c].ret.tag = "Ok"
              /\ calls[c].ret.data \in {OldValue} \cup {FreshValue(d) : d \in Callers}


\* C37: DeduplicateTrack and DeduplicateArtist are idempotent: the filter
\* applied to its own output returns that output unchanged, whatever the
\* input list.
C37_DedupIdempotent ==
    \A tag \in {"filter:dedup_track", "filter:dedup_artist"} :
        FilterReturned(tag) =>
            ComponentExecute(call_self, <<call_output.tracks>>) = call_output

\* C37 witness: DeduplicateArtist has dropped the second of three tracks and
\* kept a track without artists.
C37_Witness ==
    /\ FilterReturned("filter:dedup_artist")
    /\ Len(call_prev[1]) = 3
    /\ HasArtists(call_prev[1][1])
    /\ HasNoArtists(call_prev[1][3])
    /\ call_output.tracks = <<call_prev[1][1], call_prev[1][3]>>


\* C38: build_schedule never decrements an in-degree that is 0, whatever the
\* node map and the edge list: no entry of in_degree falls below 0 (wraps),
\* and no id is at two places of the schedule, so the edges of an id are
\* followed once.
C38_NoUnderflow ==
    /\ ~underflow
    /\ \A k \in DOMAIN in_degree : in_degree[k] >= 0
    /\ \A n \in Ids : Occurrences(n) <= 1

\* C38 witness: an edge is in the list twice; its target started with
\* in-degree 2, was decremented twice by the one pass over its source and
\* was scheduled at in-degree 0.
C38_Witness ==
    /\ BuildReturned
    /\ build_result = "Ok"
    /\ \E i, j \in DOMAIN edges :
          /\ i # j
          /\ edges[i] = edges[j]
          /\ edges[i][1] # edges[i][2]
          /\ in_degree[edges[i][2]] = 0
          /\ Occurrences(edges[i][2]) = 1

=============================================================================
